---- MODULE Spec2Model ----
(***************************************************************************)
(* optional<T> of include/optional.hpp (latest revision, lines 58-262),    *)
(* with reset() as given in docs/_posts/2023-02-24-reset.md, for           *)
(* T = unsigned int.  A fixed number of optional variables go in and out   *)
(* of scope; every public operation is one atomic action.  Further         *)
(* specifications look at swap statement by statement, at a T whose copy   *)
(* constructor throws, at a T whose == and < always return true, at the    *)
(* nullopt overloads of the nullopt post, and at the earlier revision of   *)
(* the header run side by side with the latest.                            *)
(***************************************************************************)
EXTENDS Integers, FiniteSets, Sequences, TLC

\* Number of optional variables of the client program.
NumOpt == 3
\* Largest value of T the client uses.
MaxVal == 1

Slots == 1..NumOpt
\* The two operands of a comparison.
CmpSlots == 1..2
T == 0..MaxVal
Cmp == {"==", "!=", "<", ">", "<=", ">="}

VARIABLES
  opt,                     \* slot -> the optional object living there
  missingDestructorCalls,  \* T objects constructed in optional storage and not yet destroyed
  overwroteLive,           \* a T was constructed over a live T (undefined behaviour seen)
  destroyedDead,           \* ~T() ran on storage holding no live T (undefined behaviour seen)
  last,                    \* what the last operation did and returned
  swapping,                \* the swap call in progress, between its two statements
  valueType,               \* the value type T the client instantiates optional with
  early                    \* slot -> the same client's optional under the earlier revision

vars == <<opt, missingDestructorCalls, overwroteLive, destroyedDead, last, swapping,
          valueType, early>>

\* The value types of the client: unsigned int, and a type whose == and <
\* both always return true.
ValueTypes == {"unsigned int", "GlobalCopyCounting"}

\* What the bytes of a storage hold while no T lives in them: reading them is
\* undefined, so they carry no value of T.
Indeterminate == -1

\* Storage of an optional before any constructor body ran: mHasValue is
\* indeterminate (h), no T lives in mBuffer.
Raw(h) == [inScope |-> TRUE, mHasValue |-> h, mBuffer |-> Indeterminate, live |-> 0]

\* A variable that is not in scope.
Gone == [inScope |-> FALSE, mHasValue |-> FALSE, mBuffer |-> Indeterminate, live |-> 0]

\* No swap call is in progress.
Idle == [this |-> 0, other |-> 0, branch |-> "idle"]

\* The machine a member function runs on: the objects, the global counter of
\* the tracked value type, and what this call has done so far (calledOnTrue:
\* it entered constructValue on an optional whose mHasValue was true;
\* copyFails: T's copy constructor throws when called; copyThrew: it did).
Cur ==
  [opt |-> opt, missing |-> missingDestructorCalls,
   overwroteLive |-> overwroteLive, destroyedDead |-> destroyedDead,
   ctors |-> 0, dtors |-> 0, assigns |-> 0, copies |-> 0,
   calledOnTrue |-> FALSE,
   copyFails |-> FALSE, copyThrew |-> FALSE,
   thrown |-> FALSE, retB |-> FALSE, retV |-> 0, retRef |-> 0]

\* T's operators: those of unsigned int, or
\* bool operator==(const GlobalCopyCounting&, const GlobalCopyCounting&) { return true; }
\* bool operator<(const GlobalCopyCounting&, const GlobalCopyCounting&) { return true; }
T_eq(x, y) == IF valueType = "GlobalCopyCounting" THEN TRUE ELSE x = y
T_lt(x, y) == IF valueType = "GlobalCopyCounting" THEN TRUE ELSE x < y

(***************************************************************************)
(* Private members.                                                        *)
(***************************************************************************)

\* constructValue that sets the discriminant before it constructs.
constructValue_flagFirst(M, i, other) ==
  IF M.copyFails
  THEN [M EXCEPT !.opt[i].mHasValue = TRUE, !.copyThrew = TRUE]
  ELSE [M EXCEPT !.opt[i].mBuffer = other,
                 !.copies = @ + 1,
                 !.opt[i].live = @ + 1,
                 !.opt[i].mHasValue = TRUE,
                 !.missing = @ + 1,
                 !.ctors = @ + 1,
                 !.calledOnTrue = @ \/ M.opt[i].mHasValue,
                 !.overwroteLive = @ \/ M.opt[i].live > 0]

\* new (&mBuffer.mStorage) T(other); mHasValue = true;
\* T's copy constructor runs once; when it throws no T comes to live and the
\* statement after it is not reached.
constructValue(M, i, other) ==
  IF M.copyFails
  THEN [M EXCEPT !.copyThrew = TRUE]
  ELSE [M EXCEPT !.opt[i].mBuffer = other,
                 !.copies = @ + 1,
                 !.opt[i].live = @ + 1,
                 !.opt[i].mHasValue = TRUE,
                 !.missing = @ + 1,
                 !.ctors = @ + 1,
                 !.calledOnTrue = @ \/ M.opt[i].mHasValue,
                 !.overwroteLive = @ \/ M.opt[i].live > 0]

\* destructValue that leaves mHasValue alone.
destructValue_keepsFlag(M, i) ==
  [M EXCEPT !.opt[i].live = IF @ > 0 THEN @ - 1 ELSE 0,
            !.opt[i].mBuffer = IF M.opt[i].live > 1 THEN @ ELSE Indeterminate,
            !.missing = @ - 1,
            !.dtors = @ + 1,
            !.destroyedDead = @ \/ M.opt[i].live = 0]

\* reinterpret_cast<T*>(&mBuffer.mStorage)->~T(); mHasValue = false;
destructValue(M, i) ==
  [M EXCEPT !.opt[i].live = IF @ > 0 THEN @ - 1 ELSE 0,
            !.opt[i].mBuffer = IF M.opt[i].live > 1 THEN @ ELSE Indeterminate,
            !.opt[i].mHasValue = FALSE,
            !.missing = @ - 1,
            !.dtors = @ + 1,
            !.destroyedDead = @ \/ M.opt[i].live = 0]

\* The check with its condition inverted.
throwInCaseOfBadAccess_inverted(o) == o.mHasValue

\* if (not mHasValue) throw bad_optional_access();   TRUE: it throws
throwInCaseOfBadAccess(o) == ~o.mHasValue

\* An lvalue-to-rvalue read through a T&: the value of the live T, and any
\* value g when no T lives in the storage (undefined behaviour).
Read(o, g) == IF o.mBuffer = Indeterminate THEN g ELSE o.mBuffer

\* The values a read of o's storage can yield.
ReadChoices(o) == IF o.mBuffer = Indeterminate THEN T ELSE {o.mBuffer}

\* T's assignment through a T&: changes the live T; with no live T in the
\* storage (undefined behaviour) the storage still holds no value.
Write(o, w) == IF o.live > 0 THEN [o EXCEPT !.mBuffer = w] ELSE o

(***************************************************************************)
(* Constructors, assignment, destructor.                                   *)
(***************************************************************************)

\* A default constructor that sets the discriminant.
optional_default_engaged(M, i) ==
  [M EXCEPT !.opt[i] = [Raw(TRUE) EXCEPT !.mHasValue = TRUE]]

\* A default constructor of an optional that keeps a T member: a T is
\* default-constructed in it.
optional_default_withMember(M, i) ==
  [constructValue([M EXCEPT !.opt[i] = Raw(TRUE)], i, 0)
     EXCEPT !.opt[i].mHasValue = FALSE, !.copies = M.copies]

\* optional() : mHasValue(false) {}
optional_default(M, i) ==
  [M EXCEPT !.opt[i] = [Raw(TRUE) EXCEPT !.mHasValue = FALSE]]

\* A value constructor that sets the discriminant and constructs nothing.
optional_value_noConstruct(M, i, value, h) ==
  [M EXCEPT !.opt[i] = [Raw(h) EXCEPT !.mHasValue = TRUE]]

\* A value constructor that takes its argument by value: one more copy of T.
optional_value_byValue(M, i, value, h) ==
  LET R == constructValue([M EXCEPT !.opt[i] = Raw(h)], i, value)
  IN  [R EXCEPT !.copies = @ + 1]

\* optional(const T& value) { constructValue(value); }
optional_value(M, i, value, h) ==
  constructValue([M EXCEPT !.opt[i] = Raw(h)], i, value)

\* A copy constructor that copies the discriminant and constructs nothing.
optional_copy_flagOnly(M, i, j) ==
  [M EXCEPT !.opt[i] = [Raw(TRUE) EXCEPT !.mHasValue = M.opt[j].mHasValue]]

\* optional(const optional& other) : mHasValue(other.mHasValue)
\*   { if (other.mHasValue) constructValue(*other); }
optional_copy(M, i, j) ==
  LET M1 == [M EXCEPT !.opt[i] =
               [Raw(TRUE) EXCEPT !.mHasValue = M.opt[j].mHasValue]]
  IN  IF M1.opt[j].mHasValue
      THEN constructValue(M1, i, M1.opt[j].mBuffer)
      ELSE M1

\* operator= that forgets the Engaged := Empty case.
operator_assign_noDestruct(M, i, j) ==
  LET R == IF M.opt[i].mHasValue /\ M.opt[j].mHasValue
           THEN [M EXCEPT !.opt[i] = Write(@, M.opt[j].mBuffer), !.assigns = @ + 1]
           ELSE IF M.opt[j].mHasValue
           THEN constructValue(M, i, M.opt[j].mBuffer)
           ELSE M
  IN  [R EXCEPT !.retRef = i]

\* operator= that replaces the target's value by destroying it and
\* constructing a copy of the source's.
operator_assign_rebuild(M, i, j) ==
  LET R == IF M.opt[i].mHasValue /\ M.opt[j].mHasValue
           THEN LET v == M.opt[j].mBuffer
                IN  constructValue(destructValue(M, i), i, v)
           ELSE IF M.opt[j].mHasValue
           THEN constructValue(M, i, M.opt[j].mBuffer)
           ELSE IF M.opt[i].mHasValue
           THEN destructValue(M, i)
           ELSE M
  IN  [R EXCEPT !.retRef = i]

\* operator= that drops the target's value by clearing the discriminant.
operator_assign_clearsFlag(M, i, j) ==
  LET R == IF M.opt[i].mHasValue /\ M.opt[j].mHasValue
           THEN [M EXCEPT !.opt[i] = Write(@, M.opt[j].mBuffer), !.assigns = @ + 1]
           ELSE IF M.opt[j].mHasValue
           THEN constructValue(M, i, M.opt[j].mBuffer)
           ELSE [M EXCEPT !.opt[i].mHasValue = FALSE]
  IN  [R EXCEPT !.retRef = i]

\* operator= that constructs whenever the source is Engaged.
operator_assign_alwaysConstructs(M, i, j) ==
  LET R == IF M.opt[j].mHasValue
           THEN constructValue(M, i, M.opt[j].mBuffer)
           ELSE IF M.opt[i].mHasValue
           THEN destructValue(M, i)
           ELSE M
  IN  [R EXCEPT !.retRef = i]

\* operator= that first destroys the target's value and then copies the
\* source's.
operator_assign_destroyFirst(M, i, j) ==
  LET M1 == IF M.opt[i].mHasValue THEN destructValue(M, i) ELSE M
      R  == IF M1.opt[j].mHasValue
            THEN constructValue(M1, i, M1.opt[j].mBuffer)
            ELSE M1
  IN  [R EXCEPT !.retRef = i]

\* optional& operator=(const optional& other)
operator_assign(M, i, j) ==
  LET R == IF M.opt[i].mHasValue /\ M.opt[j].mHasValue
           THEN \* *(*this) = *other;
                [M EXCEPT !.opt[i] = Write(@, M.opt[j].mBuffer), !.assigns = @ + 1]
           ELSE IF M.opt[j].mHasValue
           THEN constructValue(M, i, M.opt[j].mBuffer)
           ELSE IF M.opt[i].mHasValue
           THEN destructValue(M, i)
           ELSE M
  IN  IF R.copyThrew THEN R
      ELSE [R EXCEPT !.retRef = i]     \* return *this;

\* A destructor that releases the storage without destroying the value.
optional_dtor_leak(M, i) == [M EXCEPT !.opt[i] = Gone]

\* ~optional() { if (mHasValue) destructValue(); }   then the storage is released
optional_dtor(M, i) ==
  LET R == IF M.opt[i].mHasValue THEN destructValue(M, i) ELSE M
  IN  [R EXCEPT !.opt[i] = Gone]

(***************************************************************************)
(* The earlier revision (optional.hpp, second half): the constructors and  *)
(* operator= set mHasValue, constructValue and destructValue leave it      *)
(* alone.                                                                  *)
(***************************************************************************)

\* new (&mBuffer) T(other);
constructValue_early(M, i, other) ==
  [M EXCEPT !.opt[i].mBuffer = other,
            !.copies = @ + 1,
            !.opt[i].live = @ + 1,
            !.missing = @ + 1,
            !.ctors = @ + 1,
            !.overwroteLive = @ \/ M.opt[i].live > 0]

\* reinterpret_cast<T*>(&mBuffer)->~T();
destructValue_early(M, i) ==
  [M EXCEPT !.opt[i].live = IF @ > 0 THEN @ - 1 ELSE 0,
            !.opt[i].mBuffer = IF M.opt[i].live > 1 THEN @ ELSE Indeterminate,
            !.missing = @ - 1,
            !.dtors = @ + 1,
            !.destroyedDead = @ \/ M.opt[i].live = 0]

\* optional() : mHasValue(false) {}
optional_default_early(M, i) ==
  [M EXCEPT !.opt[i] = [Raw(TRUE) EXCEPT !.mHasValue = FALSE]]

\* optional(const T& value) : mHasValue(true) { constructValue(value); }
optional_value_early(M, i, value) ==
  constructValue_early([M EXCEPT !.opt[i] = [Raw(FALSE) EXCEPT !.mHasValue = TRUE]],
                       i, value)

\* optional(const optional& other) : mHasValue(other.mHasValue)
\*   { if (other.mHasValue) constructValue(*other); }
optional_copy_early(M, i, j) ==
  LET M1 == [M EXCEPT !.opt[i] =
               [Raw(TRUE) EXCEPT !.mHasValue = M.opt[j].mHasValue]]
  IN  IF M1.opt[j].mHasValue
      THEN constructValue_early(M1, i, M1.opt[j].mBuffer)
      ELSE M1

\* The earlier operator= without its last assignment to mHasValue.
operator_assign_early_noFlag(M, i, j) ==
  LET R == IF M.opt[i].mHasValue /\ M.opt[j].mHasValue
           THEN [M EXCEPT !.opt[i] = Write(@, M.opt[j].mBuffer), !.assigns = @ + 1]
           ELSE IF M.opt[j].mHasValue
           THEN constructValue_early(M, i, M.opt[j].mBuffer)
           ELSE IF M.opt[i].mHasValue
           THEN destructValue_early(M, i)
           ELSE M
  IN  [R EXCEPT !.retRef = i]

\* optional& operator=(const optional& other), earlier revision
operator_assign_early(M, i, j) ==
  LET R == IF M.opt[i].mHasValue /\ M.opt[j].mHasValue
           THEN \* *(*this) = *other;
                [M EXCEPT !.opt[i] = Write(@, M.opt[j].mBuffer), !.assigns = @ + 1]
           ELSE IF M.opt[j].mHasValue
           THEN constructValue_early(M, i, M.opt[j].mBuffer)
           ELSE IF M.opt[i].mHasValue
           THEN destructValue_early(M, i)
           ELSE M
  IN  [R EXCEPT !.opt[i].mHasValue = R.opt[j].mHasValue,   \* mHasValue = other.mHasValue;
                !.retRef = i]                               \* return *this;

\* ~optional() { if (mHasValue) destructValue(); }   then the storage is released
optional_dtor_early(M, i) ==
  LET R == IF M.opt[i].mHasValue THEN destructValue_early(M, i) ELSE M
  IN  [R EXCEPT !.opt[i] = Gone]

(***************************************************************************)
(* Observers and accessors.                                                *)
(***************************************************************************)

\* bool has_value() const { return mHasValue; }
has_value(o) == o.mHasValue

\* operator bool() const { return mHasValue; }
operator_bool(o) == o.mHasValue

\* const T& operator*() const, read by the caller.
operator_deref_const(M, i, g) == [M EXCEPT !.retV = Read(M.opt[i], g)]

\* operator*() that returns a copy of the value: the caller's assignment goes
\* to the copy.
operator_deref_mut_byValue(M, i, w, g) ==
  [M EXCEPT !.copies = @ + 1, !.assigns = @ + 1, !.retV = w]

\* operator*() on optionals whose copies share one T: the write shows in
\* every Engaged optional that holds the same value.
operator_deref_mut_shared(M, i, w, g) ==
  LET old == M.opt[i].mBuffer
      M1  == [M EXCEPT !.opt = [k \in DOMAIN M.opt |->
                                  IF M.opt[k].mHasValue /\ M.opt[k].mBuffer = old
                                  THEN Write(M.opt[k], w) ELSE M.opt[k]],
                       !.assigns = @ + 1]
  IN  [M1 EXCEPT !.retV = Read(M1.opt[i], g)]

\* T& operator*(), the caller assigns w through it and reads it back.
operator_deref_mut(M, i, w, g) ==
  LET M1 == [M EXCEPT !.opt[i] = Write(@, w), !.assigns = @ + 1]
  IN  [M1 EXCEPT !.retV = Read(M1.opt[i], g)]

\* const T* operator->() const { return &(*(*this)); }, read by the caller.
operator_arrow_const(M, i, g) == operator_deref_const(M, i, g)

\* T* operator->() { return &(*(*this)); }, the caller assigns w through it.
operator_arrow_mut(M, i, w, g) == operator_deref_mut(M, i, w, g)

\* const T& value() const { throwInCaseOfBadAccess(); return *(*this); }
value_const(M, i, g) ==
  IF throwInCaseOfBadAccess(M.opt[i])
  THEN [M EXCEPT !.thrown = TRUE]
  ELSE operator_deref_const(M, i, g)

\* value() that stores through the buffer before it checks.
value_mut_writesFirst(M, i, w, g) ==
  LET M1 == operator_deref_mut([M EXCEPT !.opt[i].mBuffer = w], i, w, g)
  IN  IF throwInCaseOfBadAccess(M.opt[i])
      THEN [M1 EXCEPT !.thrown = TRUE, !.retV = 0, !.assigns = 0]
      ELSE M1

\* T& value() { throwInCaseOfBadAccess(); return *(*this); }
value_mut(M, i, w, g) ==
  IF throwInCaseOfBadAccess(M.opt[i])
  THEN [M EXCEPT !.thrown = TRUE]
  ELSE operator_deref_mut(M, i, w, g)

(***************************************************************************)
(* swap and reset.                                                         *)
(***************************************************************************)

\* swap that destroys the donor before it copies.
swap_destroyFirst(M, i, j) ==
  IF has_value(M.opt[i]) /\ has_value(M.opt[j])
  THEN [M EXCEPT !.opt[i] = Write(@, M.opt[j].mBuffer),
                 !.opt[j] = Write(@, M.opt[i].mBuffer),
                 !.assigns = @ + 2]
  ELSE IF has_value(M.opt[i])
  THEN LET M1 == destructValue(M, i)
       IN  constructValue(M1, j, M1.opt[i].mBuffer)
  ELSE IF has_value(M.opt[j])
  THEN LET M1 == destructValue(M, j)
       IN  constructValue(M1, i, M1.opt[j].mBuffer)
  ELSE M

\* swap that copies the value across and leaves the donor Engaged.
swap_keepsDonor(M, i, j) ==
  IF has_value(M.opt[i]) /\ has_value(M.opt[j])
  THEN LET tmp == M.opt[i].mBuffer
           M1  == [M EXCEPT !.opt[i] = Write(@, M.opt[j].mBuffer)]
           M2  == [M1 EXCEPT !.opt[j] = Write(@, tmp)]
       IN  [M2 EXCEPT !.assigns = @ + 2]
  ELSE IF has_value(M.opt[i])
  THEN constructValue(M, j, M.opt[i].mBuffer)
  ELSE IF has_value(M.opt[j])
  THEN constructValue(M, i, M.opt[j].mBuffer)
  ELSE M

\* swap that only handles an Engaged *this.
swap_oneSided(M, i, j) ==
  IF has_value(M.opt[i]) /\ has_value(M.opt[j])
  THEN LET tmp == M.opt[i].mBuffer
           M1  == [M EXCEPT !.opt[i] = Write(@, M.opt[j].mBuffer)]
           M2  == [M1 EXCEPT !.opt[j] = Write(@, tmp)]
       IN  [M2 EXCEPT !.assigns = @ + 2]
  ELSE IF has_value(M.opt[i])
  THEN destructValue(constructValue(M, j, M.opt[i].mBuffer), i)
  ELSE M

\* A chain of conditions without the case of two Engaged optionals.
swap_branch_noBoth(M, i, j) ==
  IF has_value(M.opt[i]) THEN "this"
  ELSE IF has_value(M.opt[j]) THEN "other"
  ELSE "none"

\* The branch swap takes: the conditions of its if / else if chain.
swap_branch(M, i, j) ==
  IF has_value(M.opt[i]) /\ has_value(M.opt[j]) THEN "both"
  ELSE IF has_value(M.opt[i]) THEN "this"
  ELSE IF has_value(M.opt[j]) THEN "other"
  ELSE "none"

\* First statement of a branch that destroys the donor's value.
swap_first_destroys(M, i, j, b) ==
  CASE b = "both" ->
         LET tmp == M.opt[i].mBuffer
             M1  == [M EXCEPT !.opt[i] = Write(@, M.opt[j].mBuffer)]
             M2  == [M1 EXCEPT !.opt[j] = Write(@, tmp)]
         IN  [M2 EXCEPT !.assigns = @ + 2]
    [] b = "this"  -> destructValue(M, i)
    [] b = "other" -> destructValue(M, j)
    [] b = "none"  -> M

\* The first statement of the branch taken.
swap_first(M, i, j, b) ==
  CASE b = "both" ->
         \* using std::swap; swap(*(*this), *other);   T tmp(a); a = b; b = tmp;
         LET tmp == M.opt[i].mBuffer
             M1  == [M EXCEPT !.opt[i] = Write(@, M.opt[j].mBuffer)]
             M2  == [M1 EXCEPT !.opt[j] = Write(@, tmp)]
         IN  IF M.copyFails
             THEN [M EXCEPT !.copyThrew = TRUE]
             ELSE [M2 EXCEPT !.assigns = @ + 2, !.copies = @ + 1]
    [] b = "this"  -> constructValue(M, j, M.opt[i].mBuffer)  \* other.constructValue(*(*this));
    [] b = "other" -> constructValue(M, i, M.opt[j].mBuffer)  \* this->constructValue(*other);
    [] b = "none"  -> M

\* The second statement of the branch taken, where it has one.
swap_second(M, i, j, b) ==
  CASE b = "this"  -> destructValue(M, i)                     \* this->destructValue();
    [] b = "other" -> destructValue(M, j)                     \* other.destructValue();
    [] OTHER       -> M

\* void swap(optional& other)
swap(M, i, j) ==
  LET b  == swap_branch(M, i, j)
      M1 == swap_first(M, i, j, b)
  IN  IF M1.copyThrew THEN M1 ELSE swap_second(M1, i, j, b)

\* friend void swap(optional& a, optional& b) { a.swap(b); }
friend_swap(M, a, b) == swap(M, a, b)

\* reset() without the check of the discriminant.
reset_unchecked(M, i) == destructValue(M, i)

\* void reset() { if (mHasValue) destructValue(); }
reset(M, i) == IF M.opt[i].mHasValue THEN destructValue(M, i) ELSE M

(***************************************************************************)
(* Comparisons: optional with optional.                                    *)
(***************************************************************************)

operator_eq(a, b) ==
  IF a.mHasValue /\ b.mHasValue
  THEN T_eq(a.mBuffer, b.mBuffer)
  ELSE ~a.mHasValue /\ ~b.mHasValue

operator_ne(a, b) == ~operator_eq(a, b)

\* operator< with Empty sorted last.
operator_lt_emptyLast(a, b) ==
  IF a.mHasValue /\ b.mHasValue
  THEN T_lt(a.mBuffer, b.mBuffer)
  ELSE a.mHasValue /\ ~b.mHasValue

operator_lt(a, b) ==
  IF a.mHasValue /\ b.mHasValue
  THEN T_lt(a.mBuffer, b.mBuffer)
  ELSE ~a.mHasValue /\ b.mHasValue

operator_gt(a, b) == operator_lt(b, a)
\* operator>= that leaves out equality.
operator_ge_strict(a, b) == operator_lt(b, a)

operator_ge(a, b) == ~operator_lt(a, b)
operator_le(a, b) == ~operator_lt(b, a)

(***************************************************************************)
(* Comparisons: optional with a bare value (U = T), both operand orders.   *)
(***************************************************************************)

operator_eq_OU(a, b) == IF ~a.mHasValue THEN FALSE ELSE T_eq(a.mBuffer, b)
operator_eq_UO(a, b) == operator_eq_OU(b, a)
operator_ne_OU(a, b) == ~operator_eq_OU(a, b)
operator_ne_UO(a, b) == ~operator_eq_UO(a, b)

\* operator<(optional, U) with an Empty optional not less than a value.
operator_lt_OU_emptyNotLess(a, b) ==
  IF ~a.mHasValue THEN FALSE ELSE T_lt(a.mBuffer, b)

operator_lt_OU(a, b) == IF ~a.mHasValue THEN TRUE ELSE T_lt(a.mBuffer, b)
operator_lt_UO(a, b) == IF ~b.mHasValue THEN FALSE ELSE T_lt(a, b.mBuffer)
operator_gt_OU(a, b) == operator_lt_UO(b, a)
operator_gt_UO(a, b) == operator_lt_OU(b, a)
\* operator>=(optional, U) written as `greater or equal'.
operator_ge_OU_gtOrEq(a, b) == operator_gt_OU(a, b) \/ operator_eq_OU(a, b)

operator_ge_OU(a, b) == ~operator_lt_OU(a, b)
operator_ge_UO(a, b) == ~operator_lt_UO(a, b)
operator_le_OU(a, b) == ~operator_lt_UO(b, a)
operator_le_UO(a, b) == ~operator_lt_OU(b, a)

(***************************************************************************)
(* Comparisons: optional with nullopt, both operand orders.  == and < have *)
(* overloads of their own; for the other operators the compiler picks the  *)
(* heterogeneous templates with U = nullopt_t, which call these.           *)
(***************************************************************************)

\* friend bool operator==(nullopt_t, const optional& b) { return not b.mHasValue; }
operator_eq_NO(b) == ~b.mHasValue
\* friend bool operator==(const optional& a, nullopt_t) { return nullopt == a; }
operator_eq_ON(a) == operator_eq_NO(a)
\* friend bool operator<(nullopt_t, const optional& b) { return b.mHasValue; }
operator_lt_NO(b) == b.mHasValue

\* operator<(optional, nullopt_t) with an Empty optional less than nullopt.
operator_lt_ON_emptyLess(a) == ~a.mHasValue

\* friend bool operator<(const optional& a, nullopt_t) { return false; }
operator_lt_ON(a) == FALSE
operator_ne_ON(a) == ~operator_eq_ON(a)     \* !(a == b)
operator_ne_NO(b) == ~operator_eq_NO(b)     \* !(a == b)
operator_gt_ON(a) == operator_lt_NO(a)      \* b < a
operator_gt_NO(b) == operator_lt_ON(b)      \* b < a
operator_ge_ON(a) == ~operator_lt_ON(a)     \* !(a < b)
operator_ge_NO(b) == ~operator_lt_NO(b)     \* !(a < b)
operator_le_ON(a) == ~operator_lt_NO(a)     \* !(b < a)
operator_le_NO(b) == ~operator_lt_ON(b)     \* !(b < a)

\* The operator the compiler picks for `a c b'.
CompareOO(c, a, b) ==
  CASE c = "==" -> operator_eq(a, b)
    [] c = "!=" -> operator_ne(a, b)
    [] c = "<"  -> operator_lt(a, b)
    [] c = ">"  -> operator_gt(a, b)
    [] c = "<=" -> operator_le(a, b)
    [] c = ">=" -> operator_ge(a, b)

CompareOU(c, a, b) ==
  CASE c = "==" -> operator_eq_OU(a, b)
    [] c = "!=" -> operator_ne_OU(a, b)
    [] c = "<"  -> operator_lt_OU(a, b)
    [] c = ">"  -> operator_gt_OU(a, b)
    [] c = "<=" -> operator_le_OU(a, b)
    [] c = ">=" -> operator_ge_OU(a, b)

CompareUO(c, a, b) ==
  CASE c = "==" -> operator_eq_UO(a, b)
    [] c = "!=" -> operator_ne_UO(a, b)
    [] c = "<"  -> operator_lt_UO(a, b)
    [] c = ">"  -> operator_gt_UO(a, b)
    [] c = "<=" -> operator_le_UO(a, b)
    [] c = ">=" -> operator_ge_UO(a, b)

\* a c nullopt
CompareON(c, a) ==
  CASE c = "==" -> operator_eq_ON(a)
    [] c = "!=" -> operator_ne_ON(a)
    [] c = "<"  -> operator_lt_ON(a)
    [] c = ">"  -> operator_gt_ON(a)
    [] c = "<=" -> operator_le_ON(a)
    [] c = ">=" -> operator_ge_ON(a)

\* nullopt c b
CompareNO(c, b) ==
  CASE c = "==" -> operator_eq_NO(b)
    [] c = "!=" -> operator_ne_NO(b)
    [] c = "<"  -> operator_lt_NO(b)
    [] c = ">"  -> operator_gt_NO(b)
    [] c = "<=" -> operator_le_NO(b)
    [] c = ">=" -> operator_ge_NO(b)

\* x c v with v converted to a temporary optional<T>(v), as it is without
\* the heterogeneous operators.
compare_with_value_viaTemporary(M, c, i, v) ==
  LET Tmp == constructValue([M EXCEPT !.opt = [k \in {1} |-> Raw(FALSE)]], 1, v)
      Done == destructValue(Tmp, 1)
  IN  [M EXCEPT !.retB = CompareOO(c, M.opt[i], Tmp.opt[1]),
                !.copies = Done.copies, !.ctors = Done.ctors, !.dtors = Done.dtors]

\* The expression x c v: both operands are bound by reference to const.
compare_with_value(M, c, i, v) == [M EXCEPT !.retB = CompareOU(c, M.opt[i], v)]

\* The expression v c x: both operands are bound by reference to const.
compare_value_with(M, c, v, i) == [M EXCEPT !.retB = CompareUO(c, v, M.opt[i])]

(***************************************************************************)
(* The transition system.                                                  *)
(***************************************************************************)

\* The machine after a statement becomes the state; `last' keeps the call's
\* name and what it did.
Effects(name, form, R) ==
  /\ opt' = R.opt
  /\ missingDestructorCalls' = R.missing
  /\ overwroteLive' = R.overwroteLive
  /\ destroyedDead' = R.destroyedDead
  /\ last' = [op |-> name, form |-> form, thrown |-> R.thrown,
              retB |-> R.retB, retV |-> R.retV, retRef |-> R.retRef,
              ctors |-> R.ctors, dtors |-> R.dtors, assigns |-> R.assigns,
              copies |-> R.copies, copyThrew |-> R.copyThrew]
  /\ valueType' = valueType

\* A call that runs from entry to return in one step: the client makes it
\* only while no other call is in progress.
Commit(name, form, R) ==
  /\ swapping = Idle
  /\ Effects(name, form, R)
  /\ swapping' = Idle
  /\ early' = early

\* No optional in scope yet; the client's value type is vt.
Start(vt) ==
  /\ valueType = vt
  /\ early = [i \in Slots |-> Gone]
  /\ opt = [i \in Slots |-> Gone]
  /\ missingDestructorCalls = 0
  /\ overwroteLive = FALSE
  /\ destroyedDead = FALSE
  /\ last = [op |-> "start", form |-> "none", thrown |-> FALSE,
             retB |-> FALSE, retV |-> 0, retRef |-> 0,
             ctors |-> 0, dtors |-> 0, assigns |-> 0, copies |-> 0,
             copyThrew |-> FALSE]
  /\ swapping = Idle

Init == Start("unsigned int")

\* The client's value type is any of the two.
InitAnyType == \E vt \in ValueTypes : Start(vt)

\* optional<T> x;
DefaultConstruct(i) ==
  /\ ~opt[i].inScope
  /\ Commit("optional()", "ctor", optional_default(Cur, i))

\* optional<T> x(v);
ValueConstruct(i, v) ==
  /\ ~opt[i].inScope
  /\ \E h \in BOOLEAN :
       Commit("optional(v)", "ctor", optional_value(Cur, i, v, h))

\* optional<T> x(y);
CopyConstruct(i, j) ==
  /\ ~opt[i].inScope
  /\ opt[j].inScope
  /\ Commit("optional(o)", "ctor", optional_copy(Cur, i, j))

\* x = y;   (x = x included)
Assign(i, j) ==
  /\ opt[i].inScope
  /\ opt[j].inScope
  /\ Commit("=", "member", operator_assign(Cur, i, j))

\* z = y = x; on three optionals: the second assignment reads the reference
\* the first returns
AssignChain(z, y, x) ==
  /\ x # y /\ y # z /\ x # z
  /\ opt[x].inScope
  /\ opt[y].inScope
  /\ opt[z].inScope
  /\ LET M1 == operator_assign(Cur, y, x)
     IN  Commit("= =", "member", operator_assign(M1, z, M1.retRef))

\* x goes out of scope.
Destruct(i) ==
  /\ opt[i].inScope
  /\ Commit("~optional", "dtor", optional_dtor(Cur, i))

\* x.has_value()
HasValue(i) ==
  /\ opt[i].inScope
  /\ Commit("has_value", "member", [Cur EXCEPT !.retB = has_value(opt[i])])

\* if (x) ...
ToBool(i) ==
  /\ opt[i].inScope
  /\ Commit("bool", "member", [Cur EXCEPT !.retB = operator_bool(opt[i])])

\* x.value() on a const optional
ValueConst(i) ==
  /\ opt[i].inScope
  /\ \E g \in ReadChoices(opt[i]) : Commit("value", "const", value_const(Cur, i, g))

\* x.value() = w;
ValueMut(i, w) ==
  /\ opt[i].inScope
  /\ \E g \in ReadChoices(opt[i]) : Commit("value", "mutable", value_mut(Cur, i, w, g))

\* *x on a const optional
DerefConst(i) ==
  /\ opt[i].inScope
  /\ \E g \in ReadChoices(opt[i]) : Commit("*", "const", operator_deref_const(Cur, i, g))

\* *x = w;
DerefMut(i, w) ==
  /\ opt[i].inScope
  /\ \E g \in ReadChoices(opt[i]) : Commit("*", "mutable", operator_deref_mut(Cur, i, w, g))

\* x-> on a const optional
ArrowConst(i) ==
  /\ opt[i].inScope
  /\ \E g \in ReadChoices(opt[i]) : Commit("->", "const", operator_arrow_const(Cur, i, g))

\* x-> used to assign w
ArrowMut(i, w) ==
  /\ opt[i].inScope
  /\ \E g \in ReadChoices(opt[i]) : Commit("->", "mutable", operator_arrow_mut(Cur, i, w, g))

\* x.swap(y);   (x.swap(x) included)
Swap(i, j) ==
  /\ opt[i].inScope
  /\ opt[j].inScope
  /\ Commit("swap", "member", swap(Cur, i, j))

\* swap(x, y);
FreeSwap(i, j) ==
  /\ opt[i].inScope
  /\ opt[j].inScope
  /\ Commit("swap", "friend", friend_swap(Cur, i, j))

\* x.reset();
Reset(i) ==
  /\ opt[i].inScope
  /\ Commit("reset", "member", reset(Cur, i))

\* The machine of the swap call in progress: what the call has done so far
\* is carried on.
Running ==
  [Cur EXCEPT !.ctors = last.ctors, !.dtors = last.dtors,
              !.assigns = last.assigns, !.copies = last.copies]

\* x.swap(y); enters, picks its branch and runs the branch's first statement.
SwapBegin(i, j) ==
  /\ swapping = Idle
  /\ opt[i].inScope
  /\ opt[j].inScope
  /\ LET b == swap_branch(Cur, i, j)
     IN  /\ Effects("swap", "begin", swap_first(Cur, i, j, b))
         /\ swapping' = [this |-> i, other |-> j, branch |-> b]
         /\ early' = early

\* The swap in progress runs the rest of its branch and returns.
SwapEnd ==
  /\ swapping # Idle
  /\ Effects("swap", "end",
             swap_second(Running, swapping.this, swapping.other, swapping.branch))
  /\ swapping' = Idle
  /\ early' = early

\* The machine of a call during which T's copy constructor throws.
CurCopyFails == [Cur EXCEPT !.copyFails = TRUE]

\* x = y; with a T whose copy constructor throws
AssignCopyFails(i, j) ==
  /\ opt[i].inScope
  /\ opt[j].inScope
  /\ Commit("=", "copy fails", operator_assign(CurCopyFails, i, j))

\* x.swap(y); with a T whose copy constructor throws
SwapCopyFails(i, j) ==
  /\ opt[i].inScope
  /\ opt[j].inScope
  /\ Commit("swap", "copy fails", swap(CurCopyFails, i, j))

\* The machine the same call runs on under the earlier revision.
CurEarly == [Cur EXCEPT !.opt = early]

\* A call made on both revisions at once.
CommitBoth(name, R, E) ==
  /\ swapping = Idle
  /\ Effects(name, "both", R)
  /\ swapping' = Idle
  /\ early' = E.opt

\* optional<T> x;   under both revisions
BothDefaultConstruct(i) ==
  /\ ~opt[i].inScope
  /\ CommitBoth("optional()", optional_default(Cur, i), optional_default_early(CurEarly, i))

\* optional<T> x(v);   under both revisions
BothValueConstruct(i, v) ==
  /\ ~opt[i].inScope
  /\ \E h \in BOOLEAN :
       CommitBoth("optional(v)", optional_value(Cur, i, v, h),
                  optional_value_early(CurEarly, i, v))

\* optional<T> x(y);   under both revisions
BothCopyConstruct(i, j) ==
  /\ ~opt[i].inScope
  /\ opt[j].inScope
  /\ CommitBoth("optional(o)", optional_copy(Cur, i, j), optional_copy_early(CurEarly, i, j))

\* x = y;   under both revisions
BothAssign(i, j) ==
  /\ opt[i].inScope
  /\ opt[j].inScope
  /\ CommitBoth("=", operator_assign(Cur, i, j), operator_assign_early(CurEarly, i, j))

\* x goes out of scope under both revisions.
BothDestruct(i) ==
  /\ opt[i].inScope
  /\ CommitBoth("~optional", optional_dtor(Cur, i), optional_dtor_early(CurEarly, i))

\* x c y
Compare(c, i, j) ==
  /\ opt[i].inScope
  /\ opt[j].inScope
  /\ Commit(c, "oo", [Cur EXCEPT !.retB = CompareOO(c, opt[i], opt[j])])

\* x c v
CompareWithValue(c, i, v) ==
  /\ opt[i].inScope
  /\ Commit(c, "ou", compare_with_value(Cur, c, i, v))

\* v c x
CompareValueWith(c, v, i) ==
  /\ opt[i].inScope
  /\ Commit(c, "uo", compare_value_with(Cur, c, v, i))

\* x c nullopt
CompareWithNullopt(c, i) ==
  /\ opt[i].inScope
  /\ Commit(c, "on", [Cur EXCEPT !.retB = CompareON(c, opt[i])])

\* nullopt c x
CompareNulloptWith(c, i) ==
  /\ opt[i].inScope
  /\ Commit(c, "no", [Cur EXCEPT !.retB = CompareNO(c, opt[i])])

Next ==
  \/ \E i \in Slots : DefaultConstruct(i)
  \/ \E i \in Slots, v \in T : ValueConstruct(i, v)
  \/ \E i, j \in Slots : CopyConstruct(i, j)
  \/ \E i, j \in Slots : Assign(i, j)
  \/ \E x, y, z \in Slots : AssignChain(z, y, x)
  \/ \E i \in Slots : Destruct(i)
  \/ \E i \in Slots : HasValue(i)
  \/ \E i \in Slots : ToBool(i)
  \/ \E i \in Slots : ValueConst(i)
  \/ \E i \in Slots, w \in T : ValueMut(i, w)
  \/ \E i \in Slots : DerefConst(i)
  \/ \E i \in Slots, w \in T : DerefMut(i, w)
  \/ \E i \in Slots : ArrowConst(i)
  \/ \E i \in Slots, w \in T : ArrowMut(i, w)
  \/ \E i, j \in Slots : Swap(i, j)
  \/ \E i, j \in Slots : FreeSwap(i, j)
  \/ \E i \in Slots : Reset(i)

\* A client that constructs, copies, assigns, swaps, resets, reads, writes and
\* destroys optionals.
Spec == Init /\ [][Next]_vars

\* A client that builds two optionals and compares them with each other,
\* with bare values and with nullopt.
NextCmp ==
  \/ \E i \in CmpSlots : DefaultConstruct(i)
  \/ \E i \in CmpSlots, v \in T : ValueConstruct(i, v)
  \/ \E i, j \in CmpSlots : CopyConstruct(i, j)
  \/ \E i \in CmpSlots : Reset(i)
  \/ \E i \in CmpSlots : Destruct(i)
  \/ \E c \in Cmp, i, j \in CmpSlots : Compare(c, i, j)
  \/ \E c \in Cmp, i \in CmpSlots, v \in T : CompareWithValue(c, i, v)
  \/ \E c \in Cmp, i \in CmpSlots, v \in T : CompareValueWith(c, v, i)
  \/ \E c \in Cmp, i \in CmpSlots : CompareWithNullopt(c, i)
  \/ \E c \in Cmp, i \in CmpSlots : CompareNulloptWith(c, i)

SpecCmp == Init /\ [][NextCmp]_vars

\* A client of either value type that builds two optionals and compares them
\* with bare values.
NextHet ==
  \/ \E i \in CmpSlots : DefaultConstruct(i)
  \/ \E i \in CmpSlots, v \in T : ValueConstruct(i, v)
  \/ \E i \in CmpSlots : Destruct(i)
  \/ \E c \in Cmp, i \in CmpSlots, v \in T : CompareWithValue(c, i, v)
  \/ \E c \in Cmp, i \in CmpSlots, v \in T : CompareValueWith(c, v, i)

SpecHet == InitAnyType /\ [][NextHet]_vars

\* A client that builds optionals and assigns and swaps them while T's copy
\* constructor throws.
NextCopyFails ==
  \/ \E i \in Slots : DefaultConstruct(i)
  \/ \E i \in Slots, v \in T : ValueConstruct(i, v)
  \/ \E i \in Slots : Destruct(i)
  \/ \E i, j \in Slots : AssignCopyFails(i, j)
  \/ \E i, j \in Slots : SwapCopyFails(i, j)

SpecCopyFails == Init /\ [][NextCopyFails]_vars

\* One client run on both revisions of optional.
NextBoth ==
  \/ \E i \in Slots : BothDefaultConstruct(i)
  \/ \E i \in Slots, v \in T : BothValueConstruct(i, v)
  \/ \E i, j \in Slots : BothCopyConstruct(i, j)
  \/ \E i, j \in Slots : BothAssign(i, j)
  \/ \E i \in Slots : BothDestruct(i)

SpecBoth == Init /\ [][NextBoth]_vars

\* A client that builds optionals and swaps them, seen statement by statement;
\* a swap that was entered runs on to its return.
NextSwap ==
  \/ \E i \in Slots : DefaultConstruct(i)
  \/ \E i \in Slots, v \in T : ValueConstruct(i, v)
  \/ \E i \in Slots : Destruct(i)
  \/ \E i, j \in Slots : SwapBegin(i, j)
  \/ SwapEnd

SpecSwap == Init /\ [][NextSwap]_vars /\ WF_vars(SwapEnd)

(***************************************************************************)
(* Properties.                                                             *)
(***************************************************************************)

\* What a client can observe of an optional: its discriminant and, when
\* Engaged, its value.
Observable(o) == IF o.mHasValue THEN <<TRUE, o.mBuffer>> ELSE <<FALSE>>

\* The objects and the counters, without the record of the last call.
Program == <<opt, missingDestructorCalls, overwroteLive, destroyedDead>>

AllGone == \A i \in Slots : ~opt[i].inScope

\* The temporary optional<T>(v).
Wrapped(v) ==
  optional_value([Cur EXCEPT !.opt = [k \in {1} |-> Gone]], 1, v, FALSE).opt[1]

\* C1: after every public operation, each optional in scope has has_value()
\* true iff its storage holds exactly one live T, and false iff it holds none.
C1_DiscriminantMatchesLiveness ==
  \A i \in Slots :
    opt[i].inScope =>
      /\ has_value(opt[i]) <=> opt[i].live = 1
      /\ ~has_value(opt[i]) <=> opt[i].live = 0

C1_Witness ==
  /\ last.op = "swap"
  /\ last.ctors = 1
  /\ \E i, j \in Slots :
       /\ opt[i].inScope /\ has_value(opt[i]) /\ opt[i].live = 1
       /\ opt[j].inScope /\ ~has_value(opt[j]) /\ opt[j].live = 0

\* C2: once every optional is destroyed, as many T were destroyed in optional
\* storage as were constructed there, and ~T() never ran on storage holding
\* no live T.
C2_NoLeakNoDoubleDestruction ==
  /\ ~destroyedDead
  /\ AllGone => missingDestructorCalls = 0

C2_Witness ==
  /\ AllGone
  /\ last.op = "~optional"
  /\ last.dtors = 1
  /\ missingDestructorCalls = 0

\* C3: a < b is true exactly when a is Empty and b Engaged, or both are
\* Engaged and *a < *b; so an Empty optional is never greater than anything
\* and two Empty optionals are not less than each other.
C3_LessThan ==
  [][(last'.form = "oo" /\ last'.op \in {"<", ">"}) =>
     \A i, j \in CmpSlots :
       /\ Compare("<", i, j) =>
            (last'.retB <=>
               \/ ~opt[i].mHasValue /\ opt[j].mHasValue
               \/ /\ opt[i].mHasValue /\ opt[j].mHasValue
                  /\ opt[i].mBuffer < opt[j].mBuffer)
       /\ (Compare(">", i, j) /\ ~opt[i].mHasValue) => ~last'.retB
       /\ (Compare("<", i, j) /\ ~opt[i].mHasValue /\ ~opt[j].mHasValue)
            => ~last'.retB]_vars

C3_Witness ==
  /\ last.op = "<" /\ last.form = "oo" /\ last.retB
  /\ \E i, j \in CmpSlots :
       /\ opt[i].inScope /\ opt[i].mHasValue
       /\ opt[j].inScope /\ opt[j].mHasValue
       /\ opt[i].mBuffer < opt[j].mBuffer

\* C4: for every operator and both operand orders, comparing an optional
\* with a bare value v gives what comparing it with optional(v) gives.
C4_HeterogeneousAsWrapped ==
  [][(last'.form \in {"ou", "uo"}) =>
     \A c \in {last'.op}, i \in CmpSlots, v \in T :
       /\ CompareWithValue(c, i, v)
            => last'.retB = CompareOO(c, opt[i], Wrapped(v))
       /\ CompareValueWith(c, v, i)
            => last'.retB = CompareOO(c, Wrapped(v), opt[i])]_vars

C4_Witness ==
  /\ last.op = "<" /\ last.form = "ou" /\ last.retB
  /\ \E i \in CmpSlots : opt[i].inScope /\ ~opt[i].mHasValue

\* C5: after y = x the target equals the source, the source is unchanged,
\* and the assignment yields the target, so after z = y = x all three are
\* equal.
C5_Assignment ==
  [][/\ (last'.op = "=") =>
        \A i, j \in Slots :
          Assign(i, j) =>
            /\ operator_eq(opt'[i], opt'[j])
            /\ Observable(opt'[i]) = Observable(opt[j])
            /\ Observable(opt'[j]) = Observable(opt[j])
            /\ (i # j => opt'[j] = opt[j])
            /\ last'.retRef = i
     /\ (last'.op = "= =") =>
        \A x, y, z \in Slots :
          AssignChain(z, y, x) =>
            /\ operator_eq(opt'[x], opt'[y])
            /\ operator_eq(opt'[y], opt'[z])
            /\ operator_eq(opt'[x], opt'[z])
            /\ Observable(opt'[z]) = Observable(opt[x])
            /\ Observable(opt'[y]) = Observable(opt[x])
            /\ Observable(opt'[x]) = Observable(opt[x])
            /\ last'.retRef = z]_vars

C5_Witness ==
  /\ last.op = "= =" /\ last.ctors = 2 /\ last.retRef = 3
  /\ \A i \in 1..3 : opt[i].inScope /\ opt[i].mHasValue /\ opt[i].mBuffer = MaxVal

\* C6: after a.swap(b), a holds exactly what b held and b what a held.
C6_Swap ==
  [][(last'.op = "swap" /\ last'.form = "member") =>
     \A i, j \in Slots :
       Swap(i, j) =>
         /\ Observable(opt'[i]) = Observable(opt[j])
         /\ Observable(opt'[j]) = Observable(opt[i])]_vars

C6_Witness ==
  /\ last.op = "swap" /\ last.form = "member"
  /\ last.ctors = 1 /\ last.dtors = 1
  /\ \E i, j \in Slots :
       /\ opt[i].inScope /\ opt[i].mHasValue /\ opt[i].mBuffer = MaxVal
       /\ opt[j].inScope /\ ~opt[j].mHasValue

C8_ThrowChangesNothing ==
  [][last'.thrown =>
       /\ Program' = Program
       /\ last'.ctors = 0 /\ last'.dtors = 0 /\ last'.assigns = 0]_vars

C8_Witness ==
  /\ last.op = "value" /\ last.form = "mutable" /\ last.thrown
  /\ \E i \in Slots : opt[i].inScope /\ ~opt[i].mHasValue

\* C9: a default-constructed optional is Empty: has_value() and the
\* conversion to bool give false and value() raises.
C9_DefaultIsEmpty ==
  [][(last'.op = "optional()") =>
     \A i \in Slots :
       DefaultConstruct(i) =>
         /\ ~has_value(opt'[i])
         /\ ~operator_bool(opt'[i])
         /\ \A g \in T : value_const(Cur', i, g).thrown
         /\ \A g, w \in T : value_mut(Cur', i, w, g).thrown]_vars

C9_Witness ==
  /\ last.op = "optional()"
  /\ \E i \in Slots : opt[i].inScope /\ ~opt[i].mHasValue

\* C10: optional(v) is Engaged: has_value() and the conversion to bool give
\* true, and value(), operator* and operator-> all give v.
C10_ValueConstructed ==
  [][(last'.op = "optional(v)") =>
     \A i \in Slots, v \in T :
       ValueConstruct(i, v) =>
         /\ has_value(opt'[i])
         /\ operator_bool(opt'[i])
         /\ \A g \in T :
              /\ ~value_const(Cur', i, g).thrown
              /\ value_const(Cur', i, g).retV = v
              /\ operator_deref_const(Cur', i, g).retV = v
              /\ operator_arrow_const(Cur', i, g).retV = v]_vars

C10_Witness ==
  /\ last.op = "optional(v)" /\ last.ctors = 1
  /\ \E i \in Slots : opt[i].inScope /\ opt[i].mHasValue /\ opt[i].mBuffer = MaxVal

\* C11: the copy optional(o) compares equal to o, whether o is Empty or
\* Engaged, holds what o holds, and o is left as it was.
C11_CopyEqualsSource ==
  [][(last'.op = "optional(o)") =>
     \A i, j \in Slots :
       CopyConstruct(i, j) =>
         /\ operator_eq(opt'[i], opt'[j])
         /\ operator_eq(opt'[j], opt'[i])
         /\ Observable(opt'[i]) = Observable(opt[j])
         /\ opt'[j] = opt[j]]_vars

C11_Witness ==
  /\ last.op = "optional(o)" /\ last.ctors = 1
  /\ \E i, j \in Slots :
       /\ i # j
       /\ opt[i].inScope /\ opt[i].mHasValue /\ opt[i].mBuffer = MaxVal
       /\ opt[j].inScope /\ opt[j].mHasValue /\ opt[j].mBuffer = MaxVal

\* C12: assigning an Engaged optional to an Engaged optional goes through T's
\* assignment: the target stays Engaged with the same live T now holding the
\* source's value, and no T is constructed or destroyed.
C12_EngagedAssignUsesTAssignment ==
  [][(last'.op = "=") =>
     \A i, j \in Slots :
       (Assign(i, j) /\ opt[i].mHasValue /\ opt[j].mHasValue) =>
         /\ last'.assigns = 1
         /\ last'.ctors = 0
         /\ last'.dtors = 0
         /\ opt'[i].mHasValue
         /\ opt'[i].live = opt[i].live
         /\ opt'[i].mBuffer = opt[j].mBuffer
         /\ missingDestructorCalls' = missingDestructorCalls]_vars

C12_Witness ==
  /\ last.op = "=" /\ last.assigns = 1 /\ last.ctors = 0 /\ last.dtors = 0
  /\ \E i, j \in Slots :
       /\ i # j
       /\ opt[i].inScope /\ opt[i].mHasValue /\ opt[i].live = 1
       /\ opt[j].inScope /\ opt[j].mHasValue
       /\ opt[i].mBuffer = opt[j].mBuffer

\* C13: assigning an Empty optional to an Engaged optional destroys the
\* target's T exactly once and leaves the target Empty with no live T; the
\* source stays Empty.
C13_EmptyAssignDestroysOnce ==
  [][(last'.op = "=") =>
     \A i, j \in Slots :
       (Assign(i, j) /\ opt[i].mHasValue /\ ~opt[j].mHasValue) =>
         /\ last'.dtors = 1
         /\ last'.ctors = 0
         /\ ~opt'[i].mHasValue
         /\ opt'[i].live = 0
         /\ missingDestructorCalls' = missingDestructorCalls - 1
         /\ ~destroyedDead'
         /\ ~opt'[j].mHasValue
         /\ opt'[j] = opt[j]]_vars

C13_Witness ==
  /\ last.op = "=" /\ last.dtors = 1 /\ last.ctors = 0
  /\ missingDestructorCalls = 0
  /\ \E i, j \in Slots :
       /\ i # j
       /\ opt[i].inScope /\ ~opt[i].mHasValue /\ opt[i].live = 0
       /\ opt[j].inScope /\ ~opt[j].mHasValue

\* C14: reset() always leaves the optional Empty: on an Engaged optional it
\* destroys the contained T exactly once, on an Empty optional it calls no
\* destructor and changes nothing, and a second reset() right after changes
\* nothing more.
C14_Reset ==
  [][(last'.op = "reset") =>
     \A i \in Slots :
       Reset(i) =>
         /\ ~has_value(opt'[i])
         /\ opt'[i].live = 0
         /\ last'.ctors = 0
         /\ ~destroyedDead'
         /\ opt[i].mHasValue =>
              /\ last'.dtors = 1
              /\ missingDestructorCalls' = missingDestructorCalls - 1
         /\ ~opt[i].mHasValue =>
              /\ last'.dtors = 0
              /\ Program' = Program
         /\ LET Twice == reset(Cur', i)
            IN  /\ Twice.opt = opt'
                /\ Twice.missing = missingDestructorCalls'
                /\ Twice.destroyedDead = destroyedDead'
                /\ Twice.dtors = 0]_vars

C14_Witness ==
  /\ last.op = "reset" /\ last.dtors = 1
  /\ missingDestructorCalls = 0
  /\ \E i \in Slots : opt[i].inScope /\ ~opt[i].mHasValue /\ opt[i].live = 0

\* C15: swap is self-inverse: after a.swap(b) or swap(a, b), in any of the
\* four state combinations, the same swap once more gives a and b their
\* original discriminants and contained values back.
C15_SwapSelfInverse ==
  [][(last'.op = "swap") =>
     \A i, j \in Slots :
       /\ Swap(i, j) =>
            LET Back == swap(Cur', i, j)
            IN  /\ Observable(Back.opt[i]) = Observable(opt[i])
                /\ Observable(Back.opt[j]) = Observable(opt[j])
                /\ Back.opt[i].live = opt[i].live
                /\ Back.opt[j].live = opt[j].live
       /\ FreeSwap(i, j) =>
            LET Back == friend_swap(Cur', i, j)
            IN  /\ Observable(Back.opt[i]) = Observable(opt[i])
                /\ Observable(Back.opt[j]) = Observable(opt[j])
                /\ Back.opt[i].live = opt[i].live
                /\ Back.opt[j].live = opt[j].live]_vars

C15_Witness ==
  /\ last.op = "swap" /\ last.form = "friend"
  /\ last.ctors = 1 /\ last.dtors = 1
  /\ \E i, j \in Slots :
       /\ opt[i].inScope /\ ~opt[i].mHasValue
       /\ opt[j].inScope /\ opt[j].mHasValue /\ opt[j].mBuffer = MaxVal

\* C16: x.swap(y), y.swap(x) and swap(x, y) all leave x and y in the same
\* final states.
C16_SwapInitiator ==
  [][(last'.op = "swap" /\ last'.form = "member") =>
     \A i, j \in Slots :
       Swap(i, j) =>
         /\ swap(Cur, j, i).opt = opt'
         /\ friend_swap(Cur, i, j).opt = opt'
         /\ friend_swap(Cur, j, i).opt = opt'
         /\ swap(Cur, j, i).missing = missingDestructorCalls'
         /\ friend_swap(Cur, i, j).missing = missingDestructorCalls']_vars

C16_Witness ==
  /\ last.op = "swap" /\ last.form = "member"
  /\ last.ctors = 1 /\ last.dtors = 1
  /\ \E i, j \in Slots :
       /\ i < j
       /\ opt[i].inScope /\ ~opt[i].mHasValue
       /\ opt[j].inScope /\ opt[j].mHasValue /\ opt[j].mBuffer = 0

\* A swap of one Engaged and one Empty optional is between its two statements.
MidTransfer == swapping.branch \in {"this", "other"}

\* C17: in a swap with exactly one side Engaged the value is first
\* copy-constructed into the Empty side and only then destroyed on the
\* originally Engaged side: one construction, then one destruction; between
\* the two the value is never held by neither optional; the swap completes
\* with both discriminants flipped.  With both sides Engaged the
\* discriminants stay as they were, with both Empty nothing is constructed
\* or destroyed.
C17_SwapTransferOrder ==
  /\ [](MidTransfer =>
          \/ has_value(opt[swapping.this]) /\ opt[swapping.this].live = 1
          \/ has_value(opt[swapping.other]) /\ opt[swapping.other].live = 1)
  /\ [][/\ (last'.form = "begin") =>
           \A i, j \in Slots :
             SwapBegin(i, j) =>
               /\ (has_value(opt[i]) /\ ~has_value(opt[j])) =>
                    /\ swapping'.branch = "this"
                    /\ last'.ctors = 1 /\ last'.dtors = 0
                    /\ has_value(opt'[j]) /\ opt'[j].mBuffer = opt[i].mBuffer
                    /\ opt'[i] = opt[i]
               /\ (~has_value(opt[i]) /\ has_value(opt[j])) =>
                    /\ swapping'.branch = "other"
                    /\ last'.ctors = 1 /\ last'.dtors = 0
                    /\ has_value(opt'[i]) /\ opt'[i].mBuffer = opt[j].mBuffer
                    /\ opt'[j] = opt[j]
               /\ (has_value(opt[i]) /\ has_value(opt[j])) =>
                    /\ swapping'.branch = "both"
                    /\ has_value(opt'[i]) /\ has_value(opt'[j])
                    /\ last'.ctors = 0 /\ last'.dtors = 0
               /\ (~has_value(opt[i]) /\ ~has_value(opt[j])) =>
                    /\ swapping'.branch = "none"
                    /\ opt' = opt
                    /\ last'.ctors = 0 /\ last'.dtors = 0
        /\ (last'.form = "end") =>
           (SwapEnd =>
              LET i == swapping.this
                  j == swapping.other
              IN  /\ swapping.branch = "this" =>
                       /\ last'.ctors = 1 /\ last'.dtors = 1
                       /\ ~has_value(opt'[i]) /\ opt'[i].live = 0
                       /\ has_value(opt'[j]) /\ opt'[j] = opt[j]
                  /\ swapping.branch = "other" =>
                       /\ last'.ctors = 1 /\ last'.dtors = 1
                       /\ ~has_value(opt'[j]) /\ opt'[j].live = 0
                       /\ has_value(opt'[i]) /\ opt'[i] = opt[i]
                  /\ swapping.branch = "both" =>
                       /\ has_value(opt'[i]) /\ has_value(opt'[j])
                       /\ last'.ctors = 0 /\ last'.dtors = 0
                  /\ swapping.branch = "none" =>
                       /\ opt' = opt
                       /\ last'.ctors = 0 /\ last'.dtors = 0)]_vars
  /\ MidTransfer ~>
       (swapping = Idle /\ last.form = "end" /\ last.ctors = 1 /\ last.dtors = 1)

C17_Witness ==
  /\ MidTransfer
  /\ last.op = "swap" /\ last.form = "begin"
  /\ last.ctors = 1 /\ last.dtors = 0
  /\ has_value(opt[swapping.this]) /\ has_value(opt[swapping.other])
  /\ opt[swapping.this].mBuffer = opt[swapping.other].mBuffer

\* C18: on two optionals the six operators agree with each other: exactly
\* one of a < b, a == b, a > b holds; != is the negation of ==; a > b is
\* b < a; a <= b is a < b or a == b; a >= b is a > b or a == b; == is
\* symmetric.  Two Empty optionals, and two Engaged optionals with equal
\* values, satisfy ==, <= and >= and none of !=, < and >.
C18_OperatorsConsistent ==
  [][(last'.form = "oo") =>
     \A i, j \in CmpSlots :
       Compare(last'.op, i, j) =>
         LET a  == opt[i]
             b  == opt[j]
             eq == CompareOO("==", a, b)
             ne == CompareOO("!=", a, b)
             lt == CompareOO("<", a, b)
             gt == CompareOO(">", a, b)
             le == CompareOO("<=", a, b)
             ge == CompareOO(">=", a, b)
         IN  /\ last'.retB = CompareOO(last'.op, a, b)
             /\ Cardinality({r \in {"<", "==", ">"} : CompareOO(r, a, b)}) = 1
             /\ ne = ~eq
             /\ gt = CompareOO("<", b, a)
             /\ le = (lt \/ eq)
             /\ ge = (gt \/ eq)
             /\ eq = CompareOO("==", b, a)
             /\ (\/ ~a.mHasValue /\ ~b.mHasValue
                 \/ a.mHasValue /\ b.mHasValue /\ a.mBuffer = b.mBuffer) =>
                  (eq /\ le /\ ge /\ ~ne /\ ~lt /\ ~gt)]_vars

C18_Witness ==
  /\ last.op = ">=" /\ last.form = "oo" /\ last.retB
  /\ opt[1].inScope /\ opt[1].mHasValue
  /\ opt[2].inScope /\ opt[2].mHasValue
  /\ opt[1].mBuffer = opt[2].mBuffer

\* The Empty optional a comparison with nullopt is measured against.
EmptyOptional ==
  optional_default([Cur EXCEPT !.opt = [k \in {1} |-> Gone]], 1).opt[1]

\* C19: for every operator and both operand orders, comparing an optional
\* with nullopt gives what comparing it with an Empty optional gives: an
\* Empty optional equals nullopt and is neither less nor greater, an Engaged
\* optional is unequal to nullopt and strictly greater.
C19_NulloptAsEmpty ==
  [][(last'.form \in {"on", "no"}) =>
     \A c \in {last'.op}, i \in CmpSlots :
       /\ CompareWithNullopt(c, i) =>
            /\ last'.retB = CompareOO(c, opt[i], EmptyOptional)
            /\ ~opt[i].mHasValue => (last'.retB <=> c \in {"==", "<=", ">="})
            /\ opt[i].mHasValue => (last'.retB <=> c \in {"!=", ">", ">="})
       /\ CompareNulloptWith(c, i) =>
            /\ last'.retB = CompareOO(c, EmptyOptional, opt[i])
            /\ ~opt[i].mHasValue => (last'.retB <=> c \in {"==", "<=", ">="})
            /\ opt[i].mHasValue => (last'.retB <=> c \in {"!=", "<", "<="})]_vars

C19_Witness ==
  /\ last.op = ">" /\ last.form = "on" /\ last.retB
  /\ \E i \in CmpSlots : opt[i].inScope /\ opt[i].mHasValue

\* C20: no comparison of an optional with a bare value, by any of the six
\* operators in either operand order, copies a T or builds a temporary
\* optional: T's copy count is after the comparison what it was before,
\* nothing is constructed or destroyed, and the optional is unchanged.
C20_HeterogeneousCopiesNothing ==
  [][(last'.form \in {"ou", "uo"}) =>
     \A c \in {last'.op}, i \in CmpSlots, v \in T :
       (CompareWithValue(c, i, v) \/ CompareValueWith(c, v, i)) =>
         /\ last'.copies = 0
         /\ last'.ctors = 0
         /\ last'.dtors = 0
         /\ last'.assigns = 0
         /\ opt'[i] = opt[i]
         /\ Program' = Program]_vars

C20_Witness ==
  /\ last.op = "==" /\ last.form = "uo" /\ last.retB /\ last.copies = 0
  /\ \E i \in CmpSlots : opt[i].inScope /\ opt[i].mHasValue /\ opt[i].mBuffer = MaxVal

\* C21: optional(v) copies T exactly once, and reading the contained value
\* through value(), operator* or operator-> copies nothing more.
C21_CopiedOnce ==
  [][/\ (last'.op = "optional(v)") =>
        \A i \in Slots, v \in T :
          ValueConstruct(i, v) =>
            /\ last'.copies = 1
            /\ \A g \in ReadChoices(opt'[i]) :
                 /\ value_const(Cur', i, g).copies = 0
                 /\ operator_deref_const(Cur', i, g).copies = 0
                 /\ operator_arrow_const(Cur', i, g).copies = 0
                 /\ value_const(Cur', i, g).retV = v
     /\ (last'.form = "const") =>
        \A i \in Slots :
          (ValueConst(i) \/ DerefConst(i) \/ ArrowConst(i)) => last'.copies = 0]_vars

C21_Witness ==
  /\ last.op = "optional(v)" /\ last.copies = 1 /\ last.ctors = 1
  /\ \E i \in Slots : opt[i].inScope /\ opt[i].mHasValue /\ opt[i].mBuffer = 0

\* C22: writing w into an Engaged optional through value(), operator* or
\* operator-> keeps it Engaged, constructs and destroys no T in its storage,
\* and the next read gives w.
C22_MutableWrite ==
  [][(last'.form = "mutable") =>
     \A i \in Slots, w \in T :
       ((ValueMut(i, w) \/ DerefMut(i, w) \/ ArrowMut(i, w)) /\ opt[i].mHasValue) =>
         /\ opt'[i].mHasValue
         /\ opt'[i].live = opt[i].live
         /\ last'.ctors = 0 /\ last'.dtors = 0 /\ last'.copies = 0
         /\ missingDestructorCalls' = missingDestructorCalls
         /\ \A g \in ReadChoices(opt'[i]) :
              /\ ~value_const(Cur', i, g).thrown
              /\ value_const(Cur', i, g).retV = w
              /\ operator_deref_const(Cur', i, g).retV = w
              /\ operator_arrow_const(Cur', i, g).retV = w]_vars

C22_Witness ==
  /\ last.op = "->" /\ last.form = "mutable" /\ last.assigns = 1
  /\ last.retV = MaxVal
  /\ \E i \in Slots : opt[i].inScope /\ opt[i].mHasValue /\ opt[i].mBuffer = MaxVal

\* On machine M, no change made through b (a write through a mutable
\* accessor, reset, assignment to b, destruction of b) shows in a.
Untouched(M, b, a) ==
  /\ \A w \in T, g \in ReadChoices(M.opt[b]) :
       /\ value_mut(M, b, w, g).opt[a] = M.opt[a]
       /\ operator_deref_mut(M, b, w, g).opt[a] = M.opt[a]
       /\ operator_arrow_mut(M, b, w, g).opt[a] = M.opt[a]
  /\ reset(M, b).opt[a] = M.opt[a]
  /\ \A k \in Slots : M.opt[k].inScope => operator_assign(M, b, k).opt[a] = M.opt[a]
  /\ optional_dtor(M, b).opt[a] = M.opt[a]

\* C23: each optional owns its value alone: once b is copy-constructed or
\* assigned from a, writing through b, resetting b, assigning to b or
\* destroying b leaves a as it is, and the same changes to a leave b as it
\* is.
C23_ExclusiveOwnership ==
  [][(last'.op \in {"optional(o)", "="}) =>
     \A b, a \in Slots :
       ((CopyConstruct(b, a) \/ Assign(b, a)) /\ b # a) =>
         /\ Untouched(Cur', b, a)
         /\ Untouched(Cur', a, b)]_vars

C23_Witness ==
  /\ last.op = "=" /\ last.ctors = 1
  /\ \E b, a \in Slots :
       /\ b # a
       /\ opt[a].inScope /\ opt[a].mHasValue
       /\ opt[b].inScope /\ opt[b].mHasValue
       /\ opt[a].mBuffer = opt[b].mBuffer
       /\ Untouched(Cur, b, a)

\* C24: default-constructing an optional and destroying it while it is still
\* Empty constructs no T and destroys no T.
C24_EmptyLifeTouchesNoT ==
  [][/\ (last'.op = "optional()") =>
        \A i \in CmpSlots :
          DefaultConstruct(i) =>
            /\ last'.ctors = 0 /\ last'.dtors = 0 /\ last'.copies = 0
            /\ opt'[i].live = 0
            /\ missingDestructorCalls' = missingDestructorCalls
            /\ optional_dtor(Cur', i).ctors = 0
            /\ optional_dtor(Cur', i).dtors = 0
            /\ optional_dtor(Cur', i).missing = missingDestructorCalls
     /\ (last'.op = "~optional") =>
        \A i \in CmpSlots :
          (Destruct(i) /\ ~opt[i].mHasValue) =>
            /\ last'.ctors = 0 /\ last'.dtors = 0
            /\ missingDestructorCalls' = missingDestructorCalls
            /\ ~destroyedDead']_vars

C24_Witness ==
  /\ last.op = "~optional" /\ last.dtors = 0 /\ last.ctors = 0
  /\ AllGone
  /\ missingDestructorCalls = 0

\* C25: between an Engaged optional o and a bare value v every operator is
\* computed from T's < and == alone: o > v is v < *o, o >= v is not *o < v,
\* v >= o is not v < *o, o <= v is not v < *o, v <= o is not *o < v, and !=
\* is the negation of ==.  So for a T whose == and < always return true,
\* ==, < and > hold in both operand orders and !=, >= and <= hold in none.
C25_DerivedFromLessAndEqual ==
  [][(last'.form \in {"ou", "uo"}) =>
     \A c \in {last'.op}, i \in CmpSlots, v \in T :
       LET o == opt[i].mBuffer
       IN  /\ (CompareWithValue(c, i, v) /\ opt[i].mHasValue) =>
                /\ c = "==" => (last'.retB <=> T_eq(o, v))
                /\ c = "!=" => (last'.retB <=> ~T_eq(o, v))
                /\ c = "<"  => (last'.retB <=> T_lt(o, v))
                /\ c = ">"  => (last'.retB <=> T_lt(v, o))
                /\ c = ">=" => (last'.retB <=> ~T_lt(o, v))
                /\ c = "<=" => (last'.retB <=> ~T_lt(v, o))
           /\ (CompareValueWith(c, v, i) /\ opt[i].mHasValue) =>
                /\ c = "==" => (last'.retB <=> T_eq(o, v))
                /\ c = "!=" => (last'.retB <=> ~T_eq(o, v))
                /\ c = "<"  => (last'.retB <=> T_lt(v, o))
                /\ c = ">"  => (last'.retB <=> T_lt(o, v))
                /\ c = ">=" => (last'.retB <=> ~T_lt(v, o))
                /\ c = "<=" => (last'.retB <=> ~T_lt(o, v))
           /\ ((CompareWithValue(c, i, v) \/ CompareValueWith(c, v, i))
                 /\ opt[i].mHasValue /\ valueType = "GlobalCopyCounting") =>
                (last'.retB <=> c \in {"==", "<", ">"})]_vars

C25_Witness ==
  /\ valueType = "GlobalCopyCounting"
  /\ last.op = ">=" /\ last.form = "ou" /\ ~last.retB
  /\ \E i \in CmpSlots : opt[i].inScope /\ opt[i].mHasValue

\* The call that led to R entered constructValue once, on an optional whose
\* discriminant was false and whose storage held no live T.
OnEmptyFalse(R) == R.ctors = 1 /\ ~R.calledOnTrue /\ ~R.overwroteLive

\* The call that led to R entered constructValue once, on storage that held
\* no live T.
OnDeadStorage(R) == R.ctors = 1 /\ ~R.overwroteLive

\* C26 as stated: every constructValue a public operation makes (value
\* constructor, copy constructor from an Engaged source, assignment of an
\* Engaged source to an Empty target, swap with one side Engaged) happens
\* while the optional's discriminant is false and its storage holds no live
\* T.
C26_AsStated ==
  [][/\ (last'.op = "optional(v)") =>
        \A i \in Slots, v \in T, h \in BOOLEAN :
          ValueConstruct(i, v) => OnEmptyFalse(optional_value(Cur, i, v, h))
     /\ (last'.op = "optional(o)") =>
        \A i, j \in Slots :
          (CopyConstruct(i, j) /\ opt[j].mHasValue) =>
            OnEmptyFalse(optional_copy(Cur, i, j))
     /\ (last'.op = "=") =>
        \A i, j \in Slots :
          (Assign(i, j) /\ opt[j].mHasValue /\ ~opt[i].mHasValue) =>
            OnEmptyFalse(operator_assign(Cur, i, j))
     /\ (last'.op = "swap" /\ last'.form = "member") =>
        \A i, j \in Slots :
          (Swap(i, j) /\ opt[i].mHasValue # opt[j].mHasValue) =>
            OnEmptyFalse(swap(Cur, i, j))]_vars

\* C26, amended: every constructValue a public operation makes happens
\* while the optional's storage holds no live T, so no live object is ever
\* overwritten; in assignment and in swap the discriminant is false then,
\* while the copy constructor has already set it to true from the source
\* and the value constructor has not initialised it.
C26_ConstructOnDeadStorage ==
  [][/\ ~overwroteLive'
     /\ (last'.op = "optional(v)") =>
        \A i \in Slots, v \in T, h \in BOOLEAN :
          ValueConstruct(i, v) =>
            /\ OnDeadStorage(optional_value(Cur, i, v, h))
            /\ optional_value(Cur, i, v, h).calledOnTrue = h
     /\ (last'.op = "optional(o)") =>
        \A i, j \in Slots :
          (CopyConstruct(i, j) /\ opt[j].mHasValue) =>
            /\ OnDeadStorage(optional_copy(Cur, i, j))
            /\ optional_copy(Cur, i, j).calledOnTrue
     /\ (last'.op = "=") =>
        \A i, j \in Slots :
          Assign(i, j) =>
            /\ (opt[j].mHasValue /\ ~opt[i].mHasValue) =>
                 OnEmptyFalse(operator_assign(Cur, i, j))
            /\ ~operator_assign(Cur, i, j).calledOnTrue
     /\ (last'.op = "swap" /\ last'.form = "member") =>
        \A i, j \in Slots :
          Swap(i, j) =>
            /\ (opt[i].mHasValue # opt[j].mHasValue) => OnEmptyFalse(swap(Cur, i, j))
            /\ ~swap(Cur, i, j).calledOnTrue]_vars

C26_Witness ==
  /\ last.op = "swap" /\ last.form = "member" /\ last.ctors = 1
  /\ ~overwroteLive
  /\ \E i, j \in Slots :
       /\ i > j
       /\ opt[i].inScope /\ opt[i].mHasValue /\ opt[i].live = 1
       /\ opt[j].inScope /\ ~opt[j].mHasValue

\* C27: a = a leaves a's discriminant and contained value as they were and
\* constructs and destroys no T; on an Engaged a it only runs T's own
\* self-assignment.
C27_SelfAssignment ==
  [][(last'.op = "=") =>
     \A i \in Slots :
       Assign(i, i) =>
         /\ Observable(opt'[i]) = Observable(opt[i])
         /\ opt'[i].live = opt[i].live
         /\ last'.ctors = 0 /\ last'.dtors = 0 /\ last'.copies = 0
         /\ last'.assigns = (IF opt[i].mHasValue THEN 1 ELSE 0)
         /\ Program' = Program
         /\ last'.retRef = i]_vars

\* Only one optional is in scope, so the assignment just made was a = a.
C27_Witness ==
  /\ last.op = "=" /\ last.assigns = 1
  /\ Cardinality({i \in Slots : opt[i].inScope}) = 1
  /\ \E i \in Slots : opt[i].inScope /\ opt[i].mHasValue /\ opt[i].mBuffer = MaxVal

\* C28: when T's copy constructor throws inside constructValue, in the
\* assignment of an Engaged source to an Empty target or in a swap with one
\* side Engaged, the receiving optional is still Empty, the source is still
\* Engaged with its value, not destroyed, and for both the discriminant
\* matches whether a T lives in the storage.
C28_CopyFailureLeavesBothIntact ==
  [][(last'.form = "copy fails") =>
     \A i, j \in Slots :
       /\ (AssignCopyFails(i, j) /\ ~opt[i].mHasValue /\ opt[j].mHasValue) =>
            /\ last'.copyThrew
            /\ ~opt'[i].mHasValue /\ opt'[i].live = 0
            /\ opt'[j].mHasValue /\ opt'[j].live = 1
            /\ opt'[j].mBuffer = opt[j].mBuffer
            /\ last'.ctors = 0 /\ last'.dtors = 0
            /\ missingDestructorCalls' = missingDestructorCalls
       /\ (SwapCopyFails(i, j) /\ opt[i].mHasValue # opt[j].mHasValue) =>
            LET src == IF opt[i].mHasValue THEN i ELSE j
                dst == IF opt[i].mHasValue THEN j ELSE i
            IN  /\ last'.copyThrew
                /\ ~opt'[dst].mHasValue /\ opt'[dst].live = 0
                /\ opt'[src].mHasValue /\ opt'[src].live = 1
                /\ opt'[src].mBuffer = opt[src].mBuffer
                /\ last'.ctors = 0 /\ last'.dtors = 0
                /\ missingDestructorCalls' = missingDestructorCalls]_vars

C28_Witness ==
  /\ last.op = "swap" /\ last.form = "copy fails" /\ last.copyThrew
  /\ last.dtors = 0
  /\ \E i, j \in Slots :
       /\ opt[i].inScope /\ opt[i].mHasValue /\ opt[i].live = 1
       /\ opt[j].inScope /\ ~opt[j].mHasValue /\ opt[j].live = 0

\* C29: a.swap(a) and swap(a, a) leave a's discriminant and contained value
\* as they were and never take a copy-construct-then-destroy branch: no T is
\* constructed in or destroyed from a's storage.
C29_SelfSwap ==
  [][(last'.op = "swap" /\ last'.form \in {"member", "friend"}) =>
     \A i \in Slots :
       (Swap(i, i) \/ FreeSwap(i, i)) =>
         /\ Observable(opt'[i]) = Observable(opt[i])
         /\ Program' = Program
         /\ swap_branch(Cur, i, i) \in {"both", "none"}
         /\ swap_branch(Cur, i, i) = "both" <=> opt[i].mHasValue
         /\ last'.ctors = 0 /\ last'.dtors = 0]_vars

\* Only one optional is in scope, so the swap just made was swap(a, a).
C29_Witness ==
  /\ last.op = "swap" /\ last.form = "friend" /\ last.assigns = 2
  /\ Cardinality({i \in Slots : opt[i].inScope}) = 1
  /\ \E i \in Slots : opt[i].inScope /\ opt[i].mHasValue /\ opt[i].mBuffer = MaxVal

\* C30: after every sequence of default construction, value construction,
\* copy construction, copy assignment and destruction the earlier and the
\* later revision hold the same discriminant and contained value in every
\* optional, and has_value, value and every comparison give the same result
\* on both.
C30_RevisionsAgree ==
  \A i \in Slots :
    /\ early[i].inScope = opt[i].inScope
    /\ opt[i].inScope =>
         /\ early[i].mHasValue = opt[i].mHasValue
         /\ Observable(early[i]) = Observable(opt[i])
         /\ early[i].live = opt[i].live
         /\ has_value(early[i]) = has_value(opt[i])
         /\ operator_bool(early[i]) = operator_bool(opt[i])
         /\ \A g \in ReadChoices(opt[i]) :
              /\ value_const(CurEarly, i, g).thrown = value_const(Cur, i, g).thrown
              /\ opt[i].mHasValue =>
                   value_const(CurEarly, i, g).retV = value_const(Cur, i, g).retV
         /\ \A c \in Cmp :
              /\ \A j \in Slots :
                   opt[j].inScope =>
                     CompareOO(c, early[i], early[j]) = CompareOO(c, opt[i], opt[j])
              /\ \A v \in T :
                   /\ CompareOU(c, early[i], v) = CompareOU(c, opt[i], v)
                   /\ CompareUO(c, v, early[i]) = CompareUO(c, v, opt[i])

C30_Witness ==
  /\ last.op = "=" /\ last.form = "both" /\ last.dtors = 1
  /\ \E i, j \in Slots :
       /\ i # j
       /\ opt[i].inScope /\ ~opt[i].mHasValue /\ early[i].inScope /\ ~early[i].mHasValue
       /\ opt[j].inScope /\ opt[j].mHasValue /\ early[j].mHasValue
       /\ early[j].mBuffer = MaxVal

====
